---- MODULE Spec2Model ----
(***************************************************************************)
(* Model of pwnreport.py: a linear pipeline                                *)
(*   process_args -> find_emails -> collect_results -> format_results      *)
(*                -> deliver_results                                       *)
(* Strings are sequences of one-character strings, so that the two regular *)
(* expressions of the program are computed on the characters.  A Python    *)
(* dict is a sequence of [key, val] records in insertion order.            *)
(* An optional value (a variable of main() not assigned yet, a file that   *)
(* does not exist) is <<>>, and <<v>> once it holds v.                     *)
(* The output file is a sequence of bytes: an ASCII character is its own   *)
(* byte, the other bytes are named by their value.                         *)
(* Nothing in the program catches an exception: a call that raises ends    *)
(* the run where it stands ("crash_..." positions).  The calls that can    *)
(* raise are those that reach the outside: writing to standard output      *)
(* (print, sys.stdout.write, sys.stdout.flush), opening and reading the    *)
(* input file, sess.get, time.sleep, opening and writing the output file.  *)
(***************************************************************************)
EXTENDS Integers, Sequences, FiniteSets

VARIABLES
    pc,              \* position of the single thread of control
    argv_ok,         \* environment: argparse accepts the command line
    readable,        \* environment: os.access(args.infile, os.R_OK)
    sleep_time,      \* environment: args.sleep, the value of -s, as the pair
                     \* <<q, r>> of q * 10^9 + r with 0 <= r < 10^9
    encoding,        \* environment: the locale encoding open() uses
    text,            \* environment: contents of the input file
    emails,          \* find_emails: list returned by re.findall
    idx,             \* collect_results: position of the for loop in emails
    res,             \* collect_results: response of the current request
    results,         \* collect_results: dict address -> body
    failed_count,    \* collect_results: counter of unexpected statuses
    total_count,     \* collect_results: progress counter
    raw_results,     \* main: value returned by collect_results (optional)
    final_results,   \* main: value returned by format_results (optional)
    outfile,         \* the output file (optional bytes)
    requested,       \* log: addresses of the GET requests issued, in order
    received,        \* log: responses received, in order
    sleeps           \* log: number of calls of time.sleep, raising or not

vars == <<pc, argv_ok, readable, sleep_time, encoding, text, emails, idx, res,
          results, failed_count, total_count, raw_results, final_results, outfile,
          requested, received, sleeps>>

(***************************************************************************)
(* Bounds of the model                                                     *)
(***************************************************************************)
MaxPieces == 4

(***************************************************************************)
(* Character classes of the two regular expressions (re.IGNORECASE)        *)
(***************************************************************************)
UpperLetters == {"A","B","C","D","E","F","G","H","I","J","K","L","M",
                 "N","O","P","Q","R","S","T","U","V","W","X","Y","Z"}

LowerLetters == {"a","b","c","d","e","f","g","h","i","j","k","l","m",
                 "n","o","p","q","r","s","t","u","v","w","x","y","z"}

Digits == {"0","1","2","3","4","5","6","7","8","9"}

\* The four characters outside ASCII whose case folding falls in A-Z, each
\* one character named by its code point: I with dot above, dotless i,
\* long s, Kelvin sign.
FoldedLetters == {"U+0130", "U+0131", "U+017F", "U+212A"}

\* [A-Z] under re.IGNORECASE, on a str pattern
Letter(c) == c \in UpperLetters \cup LowerLetters \cup FoldedLetters

\* [A-Z0-9._%+-] under re.IGNORECASE
LocalChar(c) == Letter(c) \/ c \in Digits \/ c \in {".", "_", "%", "+", "-"}

\* [A-Z0-9.-] under re.IGNORECASE
DomainChar(c) == Letter(c) \/ c \in Digits \/ c \in {".", "-"}

Max(S) == CHOOSE m \in S : \A n \in S : n <= m

(***************************************************************************)
(* find_emails: re.findall(r'[A-Z0-9._%+-]+@[A-Z0-9.-]+\.[A-Z]{2,}', ...)  *)
(***************************************************************************)
\* Index of the last character of the longest run of local-part characters
\* starting at i (i - 1 when there is none).
RECURSIVE LocalRunEnd(_, _)
LocalRunEnd(t, i) ==
    IF i <= Len(t) /\ LocalChar(t[i]) THEN LocalRunEnd(t, i + 1) ELSE i - 1

RECURSIVE DomainRunEnd(_, _)
DomainRunEnd(t, i) ==
    IF i <= Len(t) /\ DomainChar(t[i]) THEN DomainRunEnd(t, i + 1) ELSE i - 1

RECURSIVE LetterRunEnd(_, _)
LetterRunEnd(t, i) ==
    IF i <= Len(t) /\ Letter(t[i]) THEN LetterRunEnd(t, i + 1) ELSE i - 1

\* variant: [A-Z]{1,} in place of [A-Z]{2,}
DotChoicesOneLetter(t, j) ==
    { d \in (j + 1)..DomainRunEnd(t, j) :
        /\ t[d] = "."
        /\ d + 1 <= Len(t)
        /\ Letter(t[d + 1]) }

\* Positions of a '.' that can end the greedy domain part starting at j:
\* at least one domain character before it, two letters after it.
DotChoices(t, j) ==
    { d \in (j + 1)..DomainRunEnd(t, j) :
        /\ t[d] = "."
        /\ d + 2 <= Len(t)
        /\ Letter(t[d + 1])
        /\ Letter(t[d + 2]) }

\* Index of the last character of the match of the email pattern that
\* starts at i, 0 when the pattern does not match at i.  The quantifiers
\* are greedy: the local part is the whole run ('@' is not in its class),
\* the domain part backtracks to the last usable '.', the TLD is the whole
\* run of letters.
MatchEmailAt(t, i) ==
    LET le == LocalRunEnd(t, i)
    IN  IF le < i \/ le + 1 > Len(t) THEN 0
        ELSE IF t[le + 1] # "@" THEN 0
        ELSE IF DotChoices(t, le + 2) = {} THEN 0
        ELSE LetterRunEnd(t, Max(DotChoices(t, le + 2)) + 1)

\* re.findall: leftmost non-overlapping matches, scanning from pos.
RECURSIVE FindAllEmails(_, _)
FindAllEmails(t, pos) ==
    IF pos > Len(t) THEN <<>>
    ELSE LET e == MatchEmailAt(t, pos)
         IN  IF e > 0
             THEN <<SubSeq(t, pos, e)>> \o FindAllEmails(t, e + 1)
             ELSE FindAllEmails(t, pos + 1)

(***************************************************************************)
(* Python dict: insertion-ordered sequence of [key, val]                   *)
(***************************************************************************)
DictKeys(d) == [i \in 1..Len(d) |-> d[i].key]

HasKey(d, k) == \E i \in 1..Len(d) : d[i].key = k

DictGet(d, k) == d[CHOOSE i \in 1..Len(d) : d[i].key = k].val

\* variant: a key assigned again moves to the end
DictSetMoveToEnd(d, k, v) ==
    Append(SelectSeq(d, LAMBDA e : e.key # k), [key |-> k, val |-> v])

\* d[k] = v : an existing key keeps its position, a new key goes last.
DictSet(d, k, v) ==
    IF HasKey(d, k)
    THEN [i \in 1..Len(d) |-> IF d[i].key = k THEN [key |-> k, val |-> v]
                                               ELSE d[i]]
    ELSE Append(d, [key |-> k, val |-> v])

(***************************************************************************)
(* collect_results helpers                                                 *)
(***************************************************************************)
\* res.status_code != 200 and res.status_code != 404
IsFailure(status) == status # 200 /\ status # 404

\* failed_count += 1 under that condition
FailedCountAfter(fc, status) == IF IsFailure(status) THEN fc + 1 ELSE fc

\* if failed_count >= 3: sys.exit()
RateLimited(fc, status) == IsFailure(status) /\ FailedCountAfter(fc, status) >= 3

\* variant: the body is stored without the test of res.text
StoreBodyAlways(d, address, body) == DictSet(d, address, body)

\* if res.text: results[address] = res.text
StoreBody(d, address, body) ==
    IF body # <<>> THEN DictSet(d, address, body) ELSE d

(***************************************************************************)
(* format_results: re.findall('"Name":"(.*?)"', body, re.IGNORECASE)       *)
(***************************************************************************)
Lower(c) ==
    IF c = "N" THEN "n" ELSE IF c = "A" THEN "a"
    ELSE IF c = "M" THEN "m" ELSE IF c = "E" THEN "e" ELSE c

\* the literal prefix of the pattern, compared ignoring case
NamePrefix == <<"\"", "n", "a", "m", "e", "\"", ":", "\"">>

PrefixAt(b, i) ==
    /\ i + Len(NamePrefix) - 1 <= Len(b)
    /\ \A k \in 1..Len(NamePrefix) : Lower(b[i + k - 1]) = NamePrefix[k]

\* (.*?)" : index of the first '"' at or after i, 0 when the end of the
\* body or a newline ('.' does not match it) comes first.
RECURSIVE ClosingQuote(_, _)
ClosingQuote(b, i) ==
    IF i > Len(b) THEN 0
    ELSE IF b[i] = "\"" THEN i
    ELSE IF b[i] = "\n" THEN 0
    ELSE ClosingQuote(b, i + 1)

\* variant: re.search in place of re.findall, the first group only
RECURSIVE FindFirstName(_, _)
FindFirstName(b, pos) ==
    IF pos > Len(b) THEN <<>>
    ELSE IF PrefixAt(b, pos) /\ ClosingQuote(b, pos + Len(NamePrefix)) > 0
    THEN <<SubSeq(b, pos + Len(NamePrefix),
                  ClosingQuote(b, pos + Len(NamePrefix)) - 1)>>
    ELSE FindFirstName(b, pos + 1)

\* the list of captured groups, leftmost non-overlapping matches
RECURSIVE FindAllNames(_, _)
FindAllNames(b, pos) ==
    IF pos > Len(b) THEN <<>>
    ELSE IF PrefixAt(b, pos) /\ ClosingQuote(b, pos + Len(NamePrefix)) > 0
    THEN LET q == ClosingQuote(b, pos + Len(NamePrefix))
         IN  <<SubSeq(b, pos + Len(NamePrefix), q - 1)>>
                 \o FindAllNames(b, q + 1)
    ELSE FindAllNames(b, pos + 1)

\* variant: insert(0, address) in place of append(address)
AddBreachFront(kb, breach, address) ==
    IF HasKey(kb, breach)
    THEN DictSet(kb, breach, <<address>> \o DictGet(kb, breach))
    ELSE DictSet(kb, breach, <<address>>)

\* known_breaches[breach].append(address) / known_breaches[breach] = [address,]
AddBreach(kb, breach, address) ==
    IF HasKey(kb, breach)
    THEN DictSet(kb, breach, Append(DictGet(kb, breach), address))
    ELSE DictSet(kb, breach, <<address>>)

\* for breach in breaches: ...
RECURSIVE AddBreaches(_, _, _)
AddBreaches(kb, breaches, address) ==
    IF breaches = <<>> THEN kb
    ELSE AddBreaches(AddBreach(kb, Head(breaches), address),
                     Tail(breaches), address)

\* for address in results: ...   (entries i..Len(d) still to do)
RECURSIVE FormatFrom(_, _, _)
FormatFrom(kb, d, i) ==
    IF i > Len(d) THEN kb
    ELSE FormatFrom(AddBreaches(kb, FindAllNames(d[i].val, 1), d[i].key),
                    d, i + 1)

format_results(d) == FormatFrom(<<>>, d, 1)

(***************************************************************************)
(* Text files: open() without encoding uses the locale encoding            *)
(***************************************************************************)
\* the characters of the model outside ASCII (U+0141 is L with stroke)
NonAscii == FoldedLetters \cup {"U+0141"}

\* the bytes of character c in UTF-8
Utf8(c) ==
    IF c = "U+0130" THEN <<"0xC4", "0xB0">>
    ELSE IF c = "U+0131" THEN <<"0xC4", "0xB1">>
    ELSE IF c = "U+0141" THEN <<"0xC5", "0x81">>
    ELSE IF c = "U+017F" THEN <<"0xC5", "0xBF">>
    ELSE IF c = "U+212A" THEN <<"0xE2", "0x84", "0xAA">>
    ELSE <<c>>

\* str s has an encoding in enc (ascii has none for a character outside it)
Encodable(s, enc) == enc = "utf-8" \/ \A i \in 1..Len(s) : s[i] \notin NonAscii

RECURSIVE Encode(_)
Encode(s) == IF s = <<>> THEN <<>> ELSE Utf8(Head(s)) \o Encode(Tail(s))

(***************************************************************************)
(* time.sleep: the delays it refuses                                       *)
(***************************************************************************)
\* A number of seconds n is the pair <<q, r>> with n = q * 10^9 + r and
\* 0 <= r < 10^9.
PairAdd(a, b) ==
    LET r == a[2] + b[2]
    IN  <<a[1] + b[1] + (r \div 1000000000), r % 1000000000>>

PairGreater(a, b) == a[1] > b[1] \/ (a[1] = b[1] /\ a[2] > b[2])

RECURSIVE PairTimes(_, _)
PairTimes(a, k) == IF k = 0 THEN <<0, 0>> ELSE PairAdd(a, PairTimes(a, k - 1))

\* 2^63 - 1 nanoseconds are 9223372036 seconds and 854775807 nanoseconds
MaxSeconds == <<9, 223372036>>
MaxNanos   == 854775807

\* time.sleep(s), called after slept earlier calls of it have returned,
\* with the monotonic clock at clock (seconds and nanoseconds) but for the
\* time slept.  It raises ValueError below zero, OverflowError when the
\* delay in nanoseconds does not fit 64 bits, and OSError (EINVAL) when
\* the deadline, clock reading plus delay, does not.
SleepRaises(s, slept, clock) ==
    \/ s[1] < 0
    \/ PairGreater(s, MaxSeconds)
    \/ LET deadline == PairAdd(PairAdd(PairTimes(s, slept), s), clock.sec)
       IN  \/ PairGreater(deadline, MaxSeconds)
           \/ deadline = MaxSeconds /\ clock.nsec > MaxNanos

(***************************************************************************)
(* deliver_results: the strings passed to file_handler.write, in order     *)
(***************************************************************************)
RECURSIVE BulletLines(_)
BulletLines(addresses) ==
    IF addresses = <<>> THEN <<>>
    ELSE << <<"*", " ">> \o Head(addresses) \o <<"\n">> >>
             \o BulletLines(Tail(addresses))

RECURSIVE BreachBlocks(_)
BreachBlocks(kb) ==
    IF kb = <<>> THEN <<>>
    ELSE << <<"*", "*">> \o Head(kb).key \o <<"*", "*", "\n">> >>
             \o BulletLines(Head(kb).val) \o << <<"\n">> >>
             \o BreachBlocks(Tail(kb))

\* the writes that precede the first one that cannot be encoded: that one
\* raises UnicodeEncodeError and leaves nothing in the buffer
RECURSIVE EncodedWrites(_, _)
EncodedWrites(writes, enc) ==
    IF writes = <<>> \/ ~Encodable(Head(writes), enc) THEN <<>>
    ELSE Encode(Head(writes)) \o EncodedWrites(Tail(writes), enc)

AllEncodable(writes, enc) ==
    \A i \in 1..Len(writes) : Encodable(writes[i], enc)

\* what the medium takes: limit < 0 is no limit, otherwise the number of
\* bytes after which a write fails (file size limit, full disk)
Flushed(bytes, limit) ==
    IF limit < 0 \/ Len(bytes) <= limit THEN bytes ELSE SubSeq(bytes, 1, limit)

(***************************************************************************)
(* Inputs                                                                  *)
(***************************************************************************)
PieceA    == <<"a", "@", "x", ".", "i", "o", " ">>
PieceB    == <<"B", "@", "U+212A", ".", "U+017F", "o", " ">>
PieceJunk == <<"_", "@", "x", ".", "i">>

Pieces == {PieceA, PieceB, PieceJunk}

RECURSIVE Concat(_)
Concat(ss) == IF ss = <<>> THEN <<>> ELSE Head(ss) \o Concat(Tail(ss))

Texts ==
    { Concat(ps) : ps \in UNION { [1..n -> Pieces] : n \in 0..MaxPieces } }

BodyNone == <<>>
BodyAB   == <<"[", "{", "\"", "N", "a", "m", "e", "\"", ":", "\"", "A", "\"",
              "}", ",", "{", "\"", "n", "a", "m", "e", "\"", ":", "\"", "U+0141",
              "\"", "}", "]">>
BodyB    == <<"[", "{", "\"", "N", "A", "M", "E", "\"", ":", "\"", "U+0141", "\"",
              "}", "]">>
BodyJunk == <<"{", "\"", "N", "a", "m", "\"", ":", "\"", "A", "\"", "}">>

Responses ==
    { [status_code |-> 200, text |-> BodyAB],
      [status_code |-> 404, text |-> BodyNone],
      [status_code |-> 429, text |-> BodyJunk],
      [status_code |-> 503, text |-> BodyB] }

\* values of -s: argparse takes any int: -1, 2, 9223372000 and 9223372037
SleepTimes == {<<-1, 999999999>>, <<0, 2>>, <<9, 223372000>>, <<9, 223372037>>}

\* readings of the monotonic clock: 10 s, 36.9 s and 1000 s
Clocks ==
    { [sec |-> <<0, 10>>, nsec |-> 0],
      [sec |-> <<0, 36>>, nsec |-> 900000000],
      [sec |-> <<0, 1000>>, nsec |-> 0] }

Encodings == {"utf-8", "ascii"}

\* what the output path gives: open() fails, or it succeeds and the medium
\* takes every byte, none, or twelve
OpenOutcomes ==
    { [opened |-> FALSE, limit |-> 0],
      [opened |-> TRUE, limit |-> -1],
      [opened |-> TRUE, limit |-> 0],
      [opened |-> TRUE, limit |-> 12] }

NoResponse == [status_code |-> 0, text |-> <<>>]

(***************************************************************************)
(* The program                                                             *)
(***************************************************************************)
Init ==
    /\ pc = "process_args"
    /\ argv_ok \in BOOLEAN
    /\ readable \in BOOLEAN
    /\ sleep_time \in SleepTimes
    /\ encoding \in Encodings
    /\ text \in Texts
    /\ emails = <<>>
    /\ idx = 0
    /\ res = NoResponse
    /\ results = <<>>
    /\ failed_count = 0
    /\ total_count = 0
    /\ raw_results = <<>>
    /\ final_results = <<>>
    /\ outfile = <<>>
    /\ requested = <<>>
    /\ received = <<>>
    /\ sleeps = 0

\* process_args: parse_args() exits on a rejected command line, then the
\* access check prints and exits on an unreadable input file; the print
\* can raise.
ProcessArgs ==
    /\ pc = "process_args"
    /\ \E printed \in BOOLEAN :
          pc' = IF ~argv_ok THEN "exit_usage"
                ELSE IF readable THEN "find_emails"
                ELSE IF printed THEN "exit_input"
                ELSE "crash_args"
    /\ UNCHANGED <<argv_ok, readable, sleep_time, encoding,
                   text, emails, idx, res, results,
                   failed_count, total_count, raw_results, final_results,
                   outfile, requested, received, sleeps>>

\* find_emails: the first print can raise; open(infile) can raise though
\* os.access passed (a directory); file_handler.read() raises
\* UnicodeDecodeError on a file with a character outside the locale
\* encoding; the print that follows re.findall can raise.
FindEmails ==
    /\ pc = "find_emails"
    /\ \E printed \in BOOLEAN, opened \in BOOLEAN, reported \in BOOLEAN :
          IF ~printed \/ ~opened \/ ~Encodable(text, encoding)
          THEN emails' = emails /\ pc' = "crash_read"
          ELSE /\ emails' = FindAllEmails(text, 1)
               /\ pc' = IF ~reported THEN "crash_read"
                        ELSE IF emails' = <<>> THEN "exit_noemails"
                        ELSE "collect_results"
    /\ UNCHANGED <<argv_ok, readable, sleep_time, encoding,
                   text, idx, res, results, failed_count,
                   total_count, raw_results, final_results, outfile,
                   requested, received, sleeps>>

\* collect_results, up to the for statement
CollectStart ==
    /\ pc = "collect_results"
    /\ results' = <<>>
    /\ failed_count' = 0
    /\ total_count' = 1
    /\ idx' = 1
    /\ pc' = "for_address"
    /\ UNCHANGED <<argv_ok, readable, sleep_time, encoding,
                   text, emails, res, raw_results,
                   final_results, outfile, requested, received, sleeps>>

\* for address in emails: ... res = sess.get(url, headers=headers).  The
\* writes of the status line can raise, before any request; sess.get can
\* raise (no connection, timeout), the request made and no response had.
Get ==
    /\ pc = "for_address"
    /\ idx <= Len(emails)
    /\ \/ /\ pc' = "crash_status"
          /\ UNCHANGED <<res, received, requested>>
       \/ /\ pc' = "crash_get"
          /\ requested' = Append(requested, emails[idx])
          /\ UNCHANGED <<res, received>>
       \/ /\ \E r \in Responses :
                /\ res' = r
                /\ received' = Append(received, r)
          /\ requested' = Append(requested, emails[idx])
          /\ pc' = "got"
    /\ UNCHANGED <<argv_ok, readable, sleep_time, encoding,
                   text, emails, idx, results,
                   failed_count, total_count, raw_results, final_results,
                   outfile, sleeps>>

\* the writes to standard output of the handling of a response: the
\* status on the status line, which can raise before the status is checked,
\* and the two prints before sys.exit(), which can raise at the threshold
HandleRaises ==
    /\ pc = "got"
    /\ \/ /\ pc' = "crash_response"
          /\ failed_count' = failed_count
       \/ /\ RateLimited(failed_count, res.status_code)
          /\ pc' = "crash_abort"
          /\ failed_count' = FailedCountAfter(failed_count, res.status_code)
    /\ UNCHANGED <<argv_ok, readable, sleep_time, encoding,
                   text, emails, idx, res, results, total_count,
                   raw_results, final_results, outfile, requested, received,
                   sleeps>>

\* the flush of the status line, which can raise after total_count += 1
\* and before time.sleep
FlushRaises ==
    /\ pc = "sleep"
    /\ total_count' = total_count + 1
    /\ pc' = "crash_flush"
    /\ UNCHANGED <<argv_ok, readable, sleep_time, encoding,
                   text, emails, idx, res, results,
                   failed_count, raw_results, final_results, outfile,
                   requested, received, sleeps>>

\* variant: a failure below the threshold goes on to the next address
\* without sleeping
HandleSkipSleep ==
  \/ HandleRaises
  \/
    /\ pc = "got"
    /\ failed_count' = FailedCountAfter(failed_count, res.status_code)
    /\ IF RateLimited(failed_count, res.status_code)
       THEN /\ pc' = "exit_ratelimit"
            /\ results' = results
            /\ UNCHANGED <<idx, total_count>>
       ELSE /\ results' = StoreBody(results, emails[idx], res.text)
            /\ IF IsFailure(res.status_code)
               THEN /\ pc' = "for_address"
                    /\ idx' = idx + 1
                    /\ total_count' = total_count + 1
               ELSE /\ pc' = "sleep"
                    /\ UNCHANGED <<idx, total_count>>
    /\ UNCHANGED <<argv_ok, readable, sleep_time, encoding,
                   text, emails, res, raw_results,
                   final_results, outfile, requested, received, sleeps>>

\* variant: at the threshold the loop is left (break) and the results so
\* far are returned
HandleBreak ==
  \/ HandleRaises
  \/
    /\ pc = "got"
    /\ failed_count' = FailedCountAfter(failed_count, res.status_code)
    /\ IF RateLimited(failed_count, res.status_code)
       THEN /\ pc' = "format_results"
            /\ results' = results
            /\ raw_results' = <<results>>
       ELSE /\ pc' = "sleep"
            /\ results' = StoreBody(results, emails[idx], res.text)
            /\ UNCHANGED raw_results
    /\ UNCHANGED <<argv_ok, readable, sleep_time, encoding,
                   text, emails, idx, res, total_count,
                   final_results, outfile, requested, received, sleeps>>

\* variant: the report is rebuilt after every response
HandleStreaming ==
  \/ HandleRaises
  \/
    /\ pc = "got"
    /\ failed_count' = FailedCountAfter(failed_count, res.status_code)
    /\ IF RateLimited(failed_count, res.status_code)
       THEN /\ pc' = "exit_ratelimit"
            /\ results' = results
       ELSE /\ pc' = "sleep"
            /\ results' = StoreBody(results, emails[idx], res.text)
    /\ final_results' = <<format_results(results')>>
    /\ UNCHANGED <<argv_ok, readable, sleep_time, encoding,
                   text, emails, idx, res, total_count,
                   raw_results, outfile, requested, received, sleeps>>

\* the status check, the exit at the threshold, the storing of the body
Handle ==
  \/ HandleRaises
  \/
    /\ pc = "got"
    /\ failed_count' = FailedCountAfter(failed_count, res.status_code)
    /\ IF RateLimited(failed_count, res.status_code)
       THEN /\ pc' = "exit_ratelimit"
            /\ results' = results
       ELSE /\ pc' = "sleep"
            /\ results' = StoreBody(results, emails[idx], res.text)
    /\ UNCHANGED <<argv_ok, readable, sleep_time, encoding,
                   text, emails, idx, res, total_count,
                   raw_results, final_results, outfile, requested, received,
                   sleeps>>

\* variant: an address whose response was a failure is requested again
SleepRetry ==
  \/ FlushRaises
  \/
    /\ pc = "sleep"
    /\ total_count' = total_count + 1
    /\ sleeps' = sleeps + 1
    /\ \E clock \in Clocks :
          IF SleepRaises(sleep_time, sleeps, clock)
          THEN pc' = "crash_sleep" /\ idx' = idx
          ELSE /\ pc' = "for_address"
               /\ idx' = IF IsFailure(res.status_code) THEN idx ELSE idx + 1
    /\ UNCHANGED <<argv_ok, readable, sleep_time, encoding,
                   text, emails, res, results,
                   failed_count, raw_results, final_results, outfile,
                   requested, received>>

\* total_count += 1, sys.stdout.flush(), time.sleep(sleep_time): the flush
\* can raise; time.sleep raises on a delay it refuses; otherwise back to
\* the for statement
Sleep ==
  \/ FlushRaises
  \/
    /\ pc = "sleep"
    /\ total_count' = total_count + 1
    /\ sleeps' = sleeps + 1
    /\ \E clock \in Clocks :
          IF SleepRaises(sleep_time, sleeps, clock)
          THEN pc' = "crash_sleep" /\ idx' = idx
          ELSE pc' = "for_address" /\ idx' = idx + 1
    /\ UNCHANGED <<argv_ok, readable, sleep_time, encoding,
                   text, emails, res, results,
                   failed_count, raw_results, final_results, outfile,
                   requested, received>>

\* the for loop is exhausted: two prints, which can raise, and return
\* results
CollectReturn ==
    /\ pc = "for_address"
    /\ idx > Len(emails)
    /\ \E printed \in BOOLEAN :
          IF printed
          THEN raw_results' = <<results>> /\ pc' = "format_results"
          ELSE raw_results' = raw_results /\ pc' = "crash_return"
    /\ UNCHANGED <<argv_ok, readable, sleep_time, encoding,
                   text, emails, idx, res, results,
                   failed_count, total_count, final_results, outfile,
                   requested, received, sleeps>>

\* final_results = format_results(raw_results)
FormatResults ==
    /\ pc = "format_results"
    /\ final_results' = <<format_results(raw_results[1])>>
    /\ pc' = "deliver_results"
    /\ UNCHANGED <<argv_ok, readable, sleep_time, encoding,
                   text, emails, idx, res, results,
                   failed_count, total_count, raw_results, outfile,
                   requested, received, sleeps>>

\* deliver_results(final_results, args.outfile).  The first print can
\* raise.  open(outfile, 'w') raises OSError on a path that cannot be
\* opened for writing (empty, in a missing directory, a directory).  Once
\* it is open the file exists, truncated; the writes go to a buffer until
\* one cannot be encoded, and the end of the with block flushes the buffer,
\* of which the medium takes what it can.  The last print can raise, the
\* file complete.
DeliverResults ==
    /\ pc = "deliver_results"
    /\ \E printed \in BOOLEAN, o \in OpenOutcomes, reported \in BOOLEAN :
          LET writes == BreachBlocks(final_results[1])
              bytes == EncodedWrites(writes, encoding)
          IN  IF ~printed \/ ~o.opened
              THEN outfile' = outfile /\ pc' = "crash_write"
              ELSE /\ outfile' = <<Flushed(bytes, o.limit)>>
                   /\ pc' = IF /\ AllEncodable(writes, encoding)
                                /\ Flushed(bytes, o.limit) = bytes
                                /\ reported
                            THEN "done" ELSE "crash_write"
    /\ UNCHANGED <<argv_ok, readable, sleep_time, encoding,
                   text, emails, idx, res, results,
                   failed_count, total_count, raw_results, final_results,
                   requested, received, sleeps>>

Next ==
    \/ ProcessArgs
    \/ FindEmails
    \/ CollectStart
    \/ Get
    \/ Handle
    \/ Sleep
    \/ CollectReturn
    \/ FormatResults
    \/ DeliverResults

Spec == Init /\ [][Next]_vars

(***************************************************************************)
(* Vocabulary of the properties                                            *)
(***************************************************************************)
Range(s) == { s[i] : i \in 1..Len(s) }

Min(S) == CHOOSE m \in S : \A n \in S : m <= n

\* a response that counts towards the rate-limit threshold
Unexpected(r) == r.status_code \notin {200, 404}

NumUnexpected(rs) == Cardinality({ i \in 1..Len(rs) : Unexpected(rs[i]) })

ExitPcs == {"exit_usage", "exit_input", "exit_noemails", "exit_ratelimit"}

\* ends of the run by an exception that nothing catches
CrashPcs ==
    {"crash_args", "crash_read", "crash_status", "crash_get",
     "crash_response", "crash_abort", "crash_flush", "crash_sleep",
     "crash_return", "crash_write"}

AfterCollectPcs == {"format_results", "deliver_results", "done"}

\* Number of responses whose handling (count, store) is over: the last one
\* is still to be handled at "got", and at the rate-limit exit or when its
\* handling raised it was never stored.
HandledCount ==
    IF pc \in {"got", "exit_ratelimit", "crash_response", "crash_abort"}
    THEN Len(received) - 1
    ELSE Len(received)

\* the handled requests for address a that came back with a non-empty body
StoringIdx(a) ==
    { i \in 1..HandledCount : requested[i] = a /\ received[i].text # <<>> }

\* the body of the last of them
LastStoredBody(a) == received[Max(StoringIdx(a))].text

\* body b contains the text "Name":"<name>" (key compared ignoring case)
ContainsRecord(b, name) ==
    \E i \in 1..Len(b) :
        /\ i + 8 + Len(name) <= Len(b)
        /\ <<b[i], b[i + 5], b[i + 6], b[i + 7]>> = <<"\"", "\"", ":", "\"">>
        /\ b[i + 1] \in {"N", "n"} /\ b[i + 2] \in {"A", "a"}
        /\ b[i + 3] \in {"M", "m"} /\ b[i + 4] \in {"E", "e"}
        /\ SubSeq(b, i + 8, i + 7 + Len(name)) = name
        /\ b[i + 8 + Len(name)] = "\""

\* address a is in the list of breach name of report kb
InReport(kb, name, a) == HasKey(kb, name) /\ a \in Range(DictGet(kb, name))

\* the breach names the properties quantify over
BreachNames(kb) == {<<"A">>, <<"U+0141">>, <<"a">>} \cup Range(DictKeys(kb))

\* text t has a substring that the email pattern matches as a whole: the
\* shortest such substring has one local-part character before an '@', a
\* non-empty run of domain characters, a '.' and two letters
HasEmailSubstring(t) ==
    \E at \in 2..Len(t) :
        /\ t[at] = "@"
        /\ LocalChar(t[at - 1])
        /\ \E dot \in (at + 2)..(Len(t) - 2) :
              /\ t[dot] = "."
              /\ \A k \in (at + 1)..(dot - 1) : DomainChar(t[k])
              /\ Letter(t[dot + 1])
              /\ Letter(t[dot + 2])

Stages == <<"Init", "Extract", "Collect", "Format", "Write", "Done">>

StageOf(p) ==
    IF p = "process_args" THEN "Init"
    ELSE IF p = "find_emails" THEN "Extract"
    ELSE IF p \in {"collect_results", "for_address", "got", "sleep"}
         THEN "Collect"
    ELSE IF p = "format_results" THEN "Format"
    ELSE IF p = "deliver_results" THEN "Write"
    ELSE IF p = "done" THEN "Done"
    ELSE "Abort"

\* the stage in which each uncaught exception ends the run
CrashStage(p) ==
    IF p = "crash_args" THEN "Init"
    ELSE IF p = "crash_read" THEN "Extract"
    ELSE IF p = "crash_write" THEN "Write"
    ELSE "Collect"

Rank(stage) == CHOOSE k \in 1..Len(Stages) : Stages[k] = stage

(***************************************************************************)
(* Properties                                                              *)
(***************************************************************************)

\* The part of C1 about the counter and the exit: failed_count is the
\* number of non-200/404 responses handled so far, wherever they are in the
\* sequence; the run exits exactly at the response that is the third of
\* them and no request follows it; the collector returns only after every
\* address was requested, with fewer than three of them.
CounterAndExit ==
    /\ pc \in {"got", "crash_response"} =>
          failed_count = NumUnexpected(SubSeq(received, 1, Len(received) - 1))
    /\ pc \in {"sleep", "for_address", "exit_ratelimit"}
              \cup AfterCollectPcs \cup (CrashPcs \ {"crash_response"}) =>
          failed_count = NumUnexpected(received)
    /\ NumUnexpected(received) <= 3
    /\ NumUnexpected(received) = 3 =>
          /\ pc \in {"got", "exit_ratelimit", "crash_response", "crash_abort"}
          /\ Unexpected(received[Len(received)])
    /\ pc \in {"exit_ratelimit", "crash_abort"} => NumUnexpected(received) = 3
    /\ pc \in AfterCollectPcs \cup {"crash_write"} =>
          /\ NumUnexpected(received) < 3
          /\ requested = emails
          /\ Len(received) = Len(emails)

\* C1: the counter and the exit as above, and a run that has seen fewer
\* than three non-200/404 responses does not end before every address was
\* requested and answered.
C1_FailureThreshold ==
    /\ CounterAndExit
    /\ (NumUnexpected(received) < 3 /\ pc \in ExitPcs \cup CrashPcs \cup {"done"}) =>
          /\ requested = emails
          /\ Len(received) = Len(emails)

\* C2 as stated: whenever the next request is due or the collect phase is
\* over, every request issued has been followed by a sleep.
C2_SleepAfterEveryRequest ==
    pc \notin {"got", "sleep"} => sleeps = Len(requested)

\* C2 amended: every request whose response is handled without the run
\* ending is followed by a call of time.sleep before the next request or
\* the return of the collector, whatever its status (the call itself can
\* raise, on a delay it refuses, and end the run); a request is followed by
\* no such call exactly when the run ends first, at the rate-limit exit on
\* the third failure or by an exception raised by the request or by a write
\* or flush of the status line.
C2_SleepUnlessAbort ==
    /\ pc \in {"for_address", "crash_status", "crash_sleep", "crash_return",
                "crash_write"} \cup AfterCollectPcs =>
          sleeps = Len(requested)
    /\ pc \in {"got", "sleep", "exit_ratelimit", "crash_get", "crash_response",
                "crash_abort", "crash_flush"} =>
          sleeps = Len(requested) - 1
    /\ sleeps <= Len(received)

C2_Witness ==
    /\ pc = "for_address"
    /\ Len(received) >= 2
    /\ Unexpected(received[Len(received)])
    /\ ~Unexpected(received[1])
    /\ sleeps = Len(requested)

\* C3: at the rate-limit exit nothing was returned, formatted or written and
\* nothing runs afterwards; the output file exists, whole or cut short by a
\* failed write, only when deliver_results ran, after every address was
\* requested with fewer than three non-200/404 responses.
C3_AbortDiscards ==
    /\ pc = "exit_ratelimit" =>
          /\ raw_results = <<>>
          /\ final_results = <<>>
          /\ outfile = <<>>
          /\ ~ENABLED Next
    /\ NumUnexpected(received) >= 3 =>
          /\ raw_results = <<>>
          /\ final_results = <<>>
          /\ outfile = <<>>
    /\ outfile # <<>> =>
          /\ pc \in {"done", "crash_write"}
          /\ final_results # <<>>
          /\ requested = emails
          /\ NumUnexpected(received) < 3

C3_Witness ==
    /\ pc = "exit_ratelimit"
    /\ results # <<>>
    /\ outfile = <<>>

\* C4: when no substring of the input text matches the email pattern the
\* run ends in find_emails, without a request and without an output file.
C4_NoEmailsStops ==
    ~HasEmailSubstring(text) =>
        /\ pc \in {"process_args", "find_emails", "exit_usage", "exit_input",
                   "exit_noemails", "crash_args", "crash_read"}
        /\ emails = <<>>
        /\ requested = <<>>
        /\ outfile = <<>>
        /\ pc = "exit_noemails" => ~ENABLED Next

C4_Witness ==
    /\ pc = "exit_noemails"
    /\ \E i \in 1..Len(text) : text[i] = "@"
    /\ requested = <<>>

\* C5: with the report built and the run not ended by an exception, an
\* address is in the list of breach B iff the body held for it in the
\* raw-response mapping, that is the last non-empty body it received,
\* contains a "Name":"B" record.
C5_ReportIffBody ==
    pc \in {"deliver_results", "done"} =>
        \A a \in Range(emails) : \A name \in BreachNames(final_results[1]) :
            InReport(final_results[1], name, a)
                <=> /\ StoringIdx(a) # {}
                    /\ ContainsRecord(LastStoredBody(a), name)

C5_Witness ==
    /\ pc = "done"
    /\ \E i \in 1..Len(requested) : \E j \in (i + 1)..Len(requested) :
          /\ requested[i] = requested[j]
          /\ received[i].text = BodyAB
          /\ received[j] = [status_code |-> 503, text |-> BodyB]
          /\ Max(StoringIdx(requested[i])) = j
          /\ InReport(final_results[1], <<"U+0141">>, requested[i])
          /\ ~InReport(final_results[1], <<"A">>, requested[i])

\* C6: the addresses requested are at every moment a prefix of the extracted
\* sequence, one request and one response per occurrence (but for a request
\* that raised, which has no response and is the last), and the whole
\* sequence once the collector has returned.
C6_RequestOrder ==
    /\ Len(requested) <= Len(emails)
    /\ requested = SubSeq(emails, 1, Len(requested))
    /\ Len(received) = IF pc = "crash_get" THEN Len(requested) - 1
                       ELSE Len(requested)
    /\ pc \in AfterCollectPcs => requested = emails

C6_Witness ==
    /\ pc = "done"
    /\ Len(requested) >= 3
    /\ \E i \in 1..Len(requested) : \E j \in (i + 1)..Len(requested) :
          requested[i] = requested[j] /\ Unexpected(received[i])

\* the stage steps common to both statements of C7
C7_StageStep(aborts) ==
    LET s == StageOf(pc)
        n == StageOf(pc')
    IN  /\ s \notin {"Done", "Abort"}
        /\ \/ n = s /\ s = "Collect"
           \/ n \notin {"Init", "Abort"} /\ Rank(n) = Rank(s) + 1
           \/ n = "Abort" /\ <<s, pc'>> \in aborts
        /\ final_results # <<>> => requested' = requested

\* C7 as stated: the stages follow one another forward and the only exits
\* are "no emails found" and "rate-limit threshold reached".
C7_TwoAbortPoints ==
    [][C7_StageStep({<<"Extract", "exit_noemails">>,
                     <<"Collect", "exit_ratelimit">>})]_vars

\* C7 amended: the stages follow one another forward, none re-entered or
\* skipped, no request is issued once the report is built, Done and the
\* ends of the run are terminal, and the run leaves the sequence at three
\* exits, process_args in Init (command line rejected or input file
\* unreadable), no emails found in Extract, rate-limit threshold reached in
\* Collect, or by an exception, none being caught, which ends the run in
\* the stage where it is raised.
C7_ThreeAbortPoints ==
    [][C7_StageStep({<<"Init", "exit_usage">>,
                     <<"Init", "exit_input">>,
                     <<"Extract", "exit_noemails">>,
                     <<"Collect", "exit_ratelimit">>}
                    \cup { <<CrashStage(p), p>> : p \in CrashPcs })]_vars

C7_Witness ==
    /\ pc = "done"
    /\ Len(requested) >= 2
    /\ requested = emails
    /\ final_results # <<>>
    /\ outfile # <<>>

\* C8: in the report, (a) the addresses of every breach list are in the
\* order of the keys of the raw-response mapping, and (b) every address of
\* the mapping is in as many breach lists as its body has distinct names,
\* namely the lists of those names.
C8_FormatLists ==
    pc \in {"deliver_results", "done"} =>
        LET raw == raw_results[1]
            kb == final_results[1]
            Pos(a) == CHOOSE i \in 1..Len(raw) : raw[i].key = a
        IN  /\ \A k \in 1..Len(kb) :
                  /\ Range(kb[k].val) \subseteq Range(DictKeys(raw))
                  /\ \A i \in 1..Len(kb[k].val) : \A j \in (i + 1)..Len(kb[k].val) :
                        Pos(kb[k].val[i]) <= Pos(kb[k].val[j])
            /\ \A r \in 1..Len(raw) :
                  LET named == { name \in BreachNames(kb) :
                                    ContainsRecord(raw[r].val, name) }
                      listed == { k \in 1..Len(kb) :
                                    raw[r].key \in Range(kb[k].val) }
                  IN  /\ { kb[k].key : k \in listed } = named
                      /\ Cardinality(listed) = Cardinality(named)

C8_Witness ==
    /\ pc = "done"
    /\ \E k \in 1..Len(final_results[1]) : Len(final_results[1][k].val) >= 2
    /\ \E a \in Range(emails) :
          /\ InReport(final_results[1], <<"A">>, a)
          /\ InReport(final_results[1], <<"U+0141">>, a)

\* C9: after every handled response the mapping has an entry for an address
\* iff one of its handled responses had a non-empty body, whatever the
\* status; no value is empty; the response just handled, when non-empty, is
\* the value of its address; an address without entry is in no breach list.
C9_StoreIffNonEmpty ==
    /\ \A i \in 1..Len(results) : results[i].val # <<>>
    /\ \A a \in Range(emails) : HasKey(results, a) <=> StoringIdx(a) # {}
    /\ Range(DictKeys(results)) \subseteq Range(emails)
    /\ (pc = "sleep" /\ res.text # <<>>) =>
          /\ HasKey(results, emails[idx])
          /\ DictGet(results, emails[idx]) = res.text
    /\ final_results # <<>> =>
          \A a \in Range(emails) :
              StoringIdx(a) = {} =>
                  \A k \in 1..Len(final_results[1]) :
                      a \notin Range(final_results[1][k].val)

C9_Witness ==
    /\ pc = "done"
    /\ \E i \in 1..Len(received) :
          /\ Unexpected(received[i])
          /\ received[i].text # <<>>
          /\ HasKey(results, requested[i])
    /\ \E a \in Range(emails) : StoringIdx(a) = {} /\ ~HasKey(results, a)

\* C10: the mapping has one entry per address at most; its value is the
\* last non-empty body handled for the address; the entries are in the
\* order of the first requests that stored a body; there are no more
\* entries than distinct addresses requested.
C10_OneEntryPerAddress ==
    /\ \A i \in 1..Len(results) : \A j \in 1..Len(results) :
          results[i].key = results[j].key => i = j
    /\ \A i \in 1..Len(results) :
          /\ StoringIdx(results[i].key) # {}
          /\ results[i].val = LastStoredBody(results[i].key)
    /\ \A i \in 1..Len(results) : \A j \in (i + 1)..Len(results) :
          Min(StoringIdx(results[i].key)) < Min(StoringIdx(results[j].key))
    /\ Len(results) <= Cardinality(Range(requested))

C10_Witness ==
    /\ pc = "done"
    /\ Len(requested) = 4
    /\ requested[1] = requested[3] /\ requested[1] = requested[4]
    /\ requested[2] # requested[1]
    /\ received[1].text = BodyB
    /\ received[2].text # <<>>
    /\ received[3].text = BodyAB
    /\ received[4].text = <<>>
    /\ DictKeys(results) = <<requested[1], requested[2]>>
    /\ DictGet(results, requested[1]) = BodyAB

====
